---- MODULE Spec2Model ----
(***************************************************************************)
(* A model of the APSystems ECU proxy: the per-connection handler          *)
(* MySocketAPI.data_received (read, decode, forward to EMA, write the      *)
(* response back, call the callback), the decoder helpers get_model and    *)
(* get_inverters, and the forwarder send_data_to_ema.                      *)
(*                                                                         *)
(* A chunk of bytes is a sequence of byte tokens: a one-character string   *)
(* is that ASCII byte, "xC3", "xA9" and "xFF" are the bytes 0xC3, 0xA9 and *)
(* 0xFF.  A text (Python str) is a sequence of characters: one-character   *)
(* strings, "LF" for the newline and "e_acute" for the character U+00E9.    *)
(***************************************************************************)
EXTENDS Integers, Sequences, FiniteSets, TLC

\* ------------------------------------------------------------------ text

Digit == {"0", "1", "2", "3", "4", "5", "6", "7", "8", "9"}

DigitChars == <<"0", "1", "2", "3", "4", "5", "6", "7", "8", "9">>

DigitVal(c) == (CHOOSE i \in 1..10 : DigitChars[i] = c) - 1

Min(a, b) == IF a < b THEN a ELSE b

\* Python's s[a:b] for 0 <= a, 0 <= b: the indices are clamped to len(s).
Slice(s, a, b) ==
    IF a >= Min(b, Len(s)) THEN <<>> ELSE SubSeq(s, a + 1, Min(b, Len(s)))

Rep(c, n) == [i \in 1..n |-> c]

\* n as exactly w decimal digits (zero padded), for 0 <= n < 10^w.
RECURSIVE Digits(_, _)
Digits(n, w) ==
    IF w = 0 THEN <<>> ELSE Digits(n \div 10, w - 1) \o <<DigitChars[(n % 10) + 1]>>

\* The whitespace of the alphabet: the space and the newline ("LF").
Whitespace == {" ", "LF"}

\* str.strip(), which int() applies to its argument.
RECURSIVE LStrip(_)
LStrip(s) == IF s # <<>> /\ Head(s) \in Whitespace THEN LStrip(Tail(s)) ELSE s

RECURSIVE RStrip(_)
RStrip(s) ==
    IF s # <<>> /\ s[Len(s)] \in Whitespace
    THEN RStrip(SubSeq(s, 1, Len(s) - 1)) ELSE s

RECURSIVE DigitsValue(_)
DigitsValue(s) ==
    IF s = <<>> THEN 0
    ELSE IF s[Len(s)] = "_" THEN DigitsValue(SubSeq(s, 1, Len(s) - 1))
    ELSE 10 * DigitsValue(SubSeq(s, 1, Len(s) - 1)) + DigitVal(s[Len(s)])

\* Python's int(s), base 10: surrounding whitespace, an optional sign, digits
\* with single underscores between them.  ok = FALSE is ValueError.  The value
\* is exact below 2^31 (the frames of this model keep their numbers small).
IntLiteral(body) ==
    /\ body # <<>>
    /\ body[1] \in Digit
    /\ body[Len(body)] \in Digit
    /\ \A i \in 1..Len(body) : body[i] \in Digit \cup {"_"}
    /\ \A i \in 1..(Len(body) - 1) : ~(body[i] = "_" /\ body[i + 1] = "_")

IntOf(body, negative) ==
    IF ~IntLiteral(body) THEN [ok |-> FALSE, val |-> 0]
    ELSE [ok |-> TRUE, val |-> IF negative THEN 0 - DigitsValue(body) ELSE DigitsValue(body)]

IntOfStripped(t) ==
    IF t # <<>> /\ Head(t) \in {"+", "-"} THEN IntOf(Tail(t), Head(t) = "-")
    ELSE IntOf(t, FALSE)

PyInt(s) == IntOfStripped(RStrip(LStrip(s)))

\* Python's true division int / d, kept exact as a fraction.
Div(n, d) == [num |-> n, den |-> d]

\* bytes.decode("utf-8"): ASCII bytes map to themselves, 0xC3 0xA9 is the one
\* two-byte character of the alphabet, any other non-ASCII byte sequence is
\* UnicodeDecodeError (ok = FALSE).
NonAscii == {"xC3", "xA9", "xFF"}

Utf8Decode(bytes) ==
    LET n == Len(bytes)
        wellFormed ==
            \A i \in 1..n :
                \/ bytes[i] \notin NonAscii
                \/ bytes[i] = "xC3" /\ i < n /\ bytes[i + 1] = "xA9"
                \/ bytes[i] = "xA9" /\ i > 1 /\ bytes[i - 1] = "xC3"
        lead == [i \in 1..n |-> IF bytes[i] = "xC3" THEN "e_acute" ELSE bytes[i]]
        NotContinuation(b) == b # "xA9"
    IN  IF wellFormed THEN [ok |-> TRUE, text |-> SelectSeq(lead, NotContinuation)]
        ELSE [ok |-> FALSE, text |-> <<>>]

\* ------------------------------------------------------------- datetime

D19 == Digit \ {"0"}

D05 == {"0", "1", "2", "3", "4", "5"}

\* The regular expression _strptime compiles for "%Y%m%d%H%M%S": per directive
\* its alternatives in the order the regex engine tries them, each a sequence
\* of character classes.
TimeRE ==
    << << <<Digit, Digit, Digit, Digit>> >>,
       << <<{"1"}, {"0", "1", "2"}>>, <<{"0"}, D19>>, <<D19>> >>,
       << <<{"3"}, {"0", "1"}>>, <<{"1", "2"}, Digit>>, <<{"0"}, D19>>, <<D19>>,
          <<{" "}, D19>> >>,
       << <<{"2"}, {"0", "1", "2", "3"}>>, <<{"0", "1"}, Digit>>, <<Digit>> >>,
       << <<D05, Digit>>, <<Digit>> >>,
       << <<{"6"}, {"0", "1"}>>, <<D05, Digit>>, <<Digit>> >> >>

\* Backtracking match of directive k (alternative a first) at 0-based position
\* pos: the start positions of the directives k.. and the end of the match, or
\* <<>> when nothing matches.
RECURSIVE ReMatch(_, _, _, _)
Fits(s, pos, pat) ==
    /\ pos + Len(pat) <= Len(s)
    /\ \A i \in 1..Len(pat) : s[pos + i] \in pat[i]

OrElse(s, pos, k, a, rest) ==
    IF rest # <<>> THEN <<pos>> \o rest ELSE ReMatch(s, pos, k, a + 1)

ReMatch(s, pos, k, a) ==
    IF k > Len(TimeRE) THEN <<pos>>
    ELSE IF a > Len(TimeRE[k]) THEN <<>>
    ELSE OrElse(s, pos, k, a,
                IF Fits(s, pos, TimeRE[k][a])
                THEN ReMatch(s, pos + Len(TimeRE[k][a]), k + 1, 1)
                ELSE <<>>)

IsLeap(y) == (y % 4 = 0 /\ y % 100 # 0) \/ y % 400 = 0

DaysInMonth(y, m) ==
    IF m = 2 THEN (IF IsLeap(y) THEN 29 ELSE 28)
    ELSE IF m \in {4, 6, 9, 11} THEN 30 ELSE 31

\* datetime.strptime(s, "%Y%m%d%H%M%S"): ok = FALSE is ValueError (no match,
\* unconverted data, or a field datetime() refuses).
NoDatetime ==
    [ok |-> FALSE, year |-> 0, month |-> 0, day |-> 0, hour |-> 0, minute |-> 0,
     second |-> 0]

Datetime(year, month, day, hour, minute, second) ==
    IF year < 1 \/ day > DaysInMonth(year, month) \/ second > 59 THEN NoDatetime
    ELSE [ok |-> TRUE, year |-> year, month |-> month, day |-> day, hour |-> hour,
          minute |-> minute, second |-> second]

Group(s, p, k) == PyInt(Slice(s, p[k], p[k + 1])).val

StrptimeMatched(s, p) ==
    IF p = <<>> \/ p[Len(p)] # Len(s) THEN NoDatetime
    ELSE Datetime(Group(s, p, 1), Group(s, p, 2), Group(s, p, 3), Group(s, p, 4),
                  Group(s, p, 5), Group(s, p, 6))

Strptime(s) == StrptimeMatched(s, ReMatch(s, 0, 1, 1))

\* str(datetime): "YYYY-MM-DD HH:MM:SS".
DatetimeStr(dt) ==
    Digits(dt.year, 4) \o <<"-">> \o Digits(dt.month, 2) \o <<"-">>
    \o Digits(dt.day, 2) \o <<" ">> \o Digits(dt.hour, 2) \o <<":">>
    \o Digits(dt.minute, 2) \o <<":">> \o Digits(dt.second, 2)

\* -------------------------------------------------------- model catalog

ECU_MODELS_216 ==
    << [code |-> <<"2", "1", "6", "0">>, name |-> "ECU-R"],
       [code |-> <<"2", "1", "6", "2">>, name |-> "ECU-R Pro"],
       [code |-> <<"2", "1", "6", "3">>, name |-> "ECU-B"] >>

ECU_MODELS_215 == << [code |-> <<"2", "1", "5">>, name |-> "ECU-C"] >>

YC600_MODEL_CODES ==
    { <<"4", "0", "6">>, <<"4", "0", "7">>, <<"4", "0", "8">>, <<"4", "0", "9">>,
      <<"7", "0", "3">>, <<"7", "0", "6">> }

QS1_MODEL_CODES == { <<"8", "0", "1">>, <<"8", "0", "2">>, <<"8", "0", "6">> }

YC1000_MODEL_CODES ==
    { <<"5", "0", "1">>, <<"5", "0", "2">>, <<"5", "0", "3">>, <<"5", "0", "4">> }

POWER_CHANNELS == <<63, 83, 103, 123>>

VOLTAGE_CHANNELS == <<51, 71, 91, 111>>

CURRENT_CHANNELS == <<60, 80, 100, 120>>

INVERTER_MODELS ==
    << [name |-> "YC600/DS3 series", channels |-> 2, model_codes |-> YC600_MODEL_CODES],
       [name |-> "QS1", channels |-> 4, model_codes |-> QS1_MODEL_CODES],
       [name |-> "YC1000/QT2", channels |-> 4, model_codes |-> YC1000_MODEL_CODES] >>

\* dict.get(key) on a table of (code, name) rows: the name, or "" for None.
TableGet(table, key) ==
    IF \E i \in 1..Len(table) : table[i].code = key
    THEN table[CHOOSE i \in 1..Len(table) : table[i].code = key].name
    ELSE ""

\* The prefix table asked with the whole code.
get_modelWholeCode(model_code) ==
    LET exact == TableGet(ECU_MODELS_216, model_code)
        prefix == TableGet(ECU_MODELS_215, model_code)
    IN  IF exact # "" THEN exact
        ELSE IF prefix # "" THEN prefix
        ELSE "Unknown"

get_model(model_code) ==
    LET exact == TableGet(ECU_MODELS_216, model_code)
        prefix == TableGet(ECU_MODELS_215, Slice(model_code, 0, 3))
    IN  IF exact # "" THEN exact
        ELSE IF prefix # "" THEN prefix
        ELSE "Unknown"

\* -------------------------------------------------------- get_inverters

\* re.finditer(r"END\d+", message): the 0-based start of every match, in order.
\* A match is END and the digits after it, so no match starts inside another.
MatchStarts(message) ==
    {i \in 0..(Len(message) - 4) :
        Slice(message, i, i + 3) = <<"E", "N", "D">> /\ message[i + 4] \in Digit}

RECURSIVE Ascending(_)
Ascending(S) ==
    IF S = {} THEN <<>>
    ELSE LET least == CHOOSE x \in S : \A y \in S : x <= y
         IN  <<least>> \o Ascending(S \ {least})

EndMatches(message) == Ascending(MatchStarts(message))

\* [f(int(msg_slice(offset, offset + 3))) for offset in offsets[:n]] with
\* f = identity for den = 1 and f = x / den otherwise; ok = FALSE is ValueError.
NoList == [ok |-> FALSE, list |-> <<>>]

ListAppend(before, raw, den) ==
    IF ~before.ok \/ ~raw.ok THEN NoList
    ELSE [ok |-> TRUE,
          list |-> Append(before.list, IF den = 1 THEN raw.val ELSE Div(raw.val, den))]

\* The comprehension run over offsets[1:n]: the first channel is left out.
RECURSIVE ChannelListFromSecond(_, _, _, _, _)
ChannelListFromSecond(message, s, offsets, n, den) ==
    IF n <= 1 THEN [ok |-> TRUE, list |-> <<>>]
    ELSE ListAppend(ChannelListFromSecond(message, s, offsets, n - 1, den),
                    PyInt(Slice(message, s + offsets[n], s + offsets[n] + 3)), den)

RECURSIVE ChannelList(_, _, _, _, _)
ChannelList(message, s, offsets, n, den) ==
    IF n = 0 THEN [ok |-> TRUE, list |-> <<>>]
    ELSE ListAppend(ChannelList(message, s, offsets, n - 1, den),
                    PyInt(Slice(message, s + offsets[n], s + offsets[n] + 3)), den)

\* inverters[uid] = inverter on an insertion-ordered dict, kept as the sequence
\* of its values: a known key keeps its place and takes the new value.
\* inverters.setdefault(uid, inverter): the first value of a uid stays.
DictPutKeepFirst(inverters, inverter) ==
    IF \E i \in 1..Len(inverters) : inverters[i].uid = inverter.uid
    THEN inverters
    ELSE Append(inverters, inverter)

DictPut(inverters, inverter) ==
    IF \E i \in 1..Len(inverters) : inverters[i].uid = inverter.uid
    THEN [i \in 1..Len(inverters) |->
            IF inverters[i].uid = inverter.uid THEN inverter ELSE inverters[i]]
    ELSE Append(inverters, inverter)

NoInverters == [ok |-> FALSE, inverters |-> <<>>]

\* The body of "if model_code in model_refs.get("model_codes")".
InverterOf(uid, idx, temperature, frequency, model_refs, power, voltage, current, inverters) ==
    IF ~power.ok \/ ~voltage.ok \/ ~current.ok THEN NoInverters
    ELSE [ok |-> TRUE,
          inverters |-> DictPut(inverters,
              [uid |-> uid, index |-> idx, temperature |-> temperature.val - 100,
               frequency |-> Div(frequency.val, 10), model |-> model_refs.name,
               channel_qty |-> model_refs.channels, power |-> power.list,
               voltage |-> voltage.list, current |-> current.list])]

InverterChannels(message, s, idx, temperature, frequency, model_refs, inverters) ==
    InverterOf(Slice(message, s + 3, s + 15), idx, temperature, frequency, model_refs,
               ChannelList(message, s, POWER_CHANNELS, model_refs.channels, 1),
               ChannelList(message, s, VOLTAGE_CHANNELS, model_refs.channels, 10),
               ChannelList(message, s, CURRENT_CHANNELS, model_refs.channels, 100),
               inverters)

\* The models whose codes hold model_code (the code sets are disjoint).
ModelsOf(model_code) ==
    {k \in 1..Len(INVERTER_MODELS) : model_code \in INVERTER_MODELS[k].model_codes}

InverterParsed(message, s, idx, temperature, frequency, known, inverters) ==
    IF ~temperature.ok \/ ~frequency.ok THEN NoInverters
    ELSE IF known = {} THEN [ok |-> TRUE, inverters |-> inverters]
    ELSE InverterChannels(message, s, idx, temperature, frequency,
                          INVERTER_MODELS[CHOOSE k \in known : TRUE], inverters)

\* The body of the loop of get_inverters for the match number idx at position s.
InverterAt(message, s, idx, inverters) ==
    InverterParsed(message, s, idx,
                   PyInt(Slice(message, s + 25, s + 28)),
                   PyInt(Slice(message, s + 20, s + 25)),
                   ModelsOf(Slice(message, s + 3, s + 6)), inverters)

RECURSIVE InvertersUpTo(_, _, _)
Continue(message, matches, n, before) ==
    IF ~before.ok THEN before
    ELSE InverterAt(message, matches[n], n - 1, before.inverters)

InvertersUpTo(message, matches, n) ==
    IF n = 0 THEN [ok |-> TRUE, inverters |-> <<>>]
    ELSE Continue(message, matches, n, InvertersUpTo(message, matches, n - 1))

\* get_inverters(message): ok = FALSE is an exception raised on the way.
get_inverters(message) ==
    InvertersUpTo(message, EndMatches(message), Len(EndMatches(message)))

\* ------------------------------------------- data_received: the decoder

MAGIC == <<"A", "P", "S", "1", "8", "A", "A">>

\* ecu[key] = value on the handler's dict, a function from its keys.
Put(d, key, value) == (key :> value) @@ d

EmptyDict == [k \in {} |-> 0]

\* The first n assignments of a list of <<key, value>>, made in order.
RECURSIVE PutAll(_, _, _)
PutAll(d, items, n) ==
    IF n = 0 THEN d ELSE Put(PutAll(d, items, n - 1), items[n][1], items[n][2])

\* The assignments of lines 99 to 109, as <<key, value>>, in order.
\* The divisors of lifetime_energy and current_power exchanged.
ItemsScalesExchanged(message, ts, life, power, qty, inv) ==
    << <<"timestamp", DatetimeStr(ts)>>,
       <<"ecu-id", Slice(message, 18, 30)>>,
       <<"model", get_model(Slice(message, 18, 22))>>,
       <<"lifetime_energy", Div(life.val, 100)>>,
       <<"daily_energy", 0>>,
       <<"lifetime_energy_production", 0>>,
       <<"current_power", Div(power.val, 10)>>,
       <<"qty_of_online_inverters", qty.val>>,
       <<"inverters", inv.inverters>> >>

Items(message, ts, life, power, qty, inv) ==
    << <<"timestamp", DatetimeStr(ts)>>,
       <<"ecu-id", Slice(message, 18, 30)>>,
       <<"model", get_model(Slice(message, 18, 22))>>,
       <<"lifetime_energy", Div(life.val, 10)>>,
       <<"daily_energy", 0>>,
       <<"lifetime_energy_production", 0>>,
       <<"current_power", Div(power.val, 100)>>,
       <<"qty_of_online_inverters", qty.val>>,
       <<"inverters", inv.inverters>> >>

\* How many of them are made before the first one raises.
Assigned(ts, life, power, qty, inv) ==
    IF ~ts.ok THEN 0
    ELSE IF ~life.ok THEN 3
    ELSE IF ~power.ok THEN 6
    ELSE IF ~qty.ok THEN 7
    ELSE IF ~inv.ok THEN 8
    ELSE 9

Fields(dict, items, assigned) ==
    [outcome |-> IF assigned = Len(items) THEN "forward" ELSE "raise",
     ecu |-> PutAll(dict, items, assigned)]

Checked(message, dict, sum, ts, life, power, qty, inv) ==
    IF ~sum.ok THEN [outcome |-> "raise", ecu |-> dict]
    ELSE IF sum.val # Len(message) - 1 THEN [outcome |-> "checksum", ecu |-> dict]
    ELSE Fields(dict, Items(message, ts, life, power, qty, inv),
                Assigned(ts, life, power, qty, inv))

\* The synchronous part of one turn of the loop of data_received, from the
\* decoded message to the call of send_data_to_ema.  outcome is
\*   "skip"      the magic test fails: nothing is done, the loop reads again,
\*   "checksum"  the checksum test fails: return None,
\*   "raise"     an exception reaches the except clause: warning, return None,
\*   "forward"   every field parsed: send_data_to_ema is called next;
\* ecu is the handler's dict afterwards: the assignments are made in order,
\* and those made before a raise stay.
Decode(message, dict) ==
    IF Slice(message, 0, 7) # MAGIC THEN [outcome |-> "skip", ecu |-> dict]
    ELSE Checked(message, dict,
                 PyInt(Slice(message, 7, 10)),
                 Strptime(Slice(message, 60, 74)),
                 PyInt(Slice(message, 42, 60)),
                 PyInt(Slice(message, 30, 42)),
                 PyInt(Slice(message, 74, 77)),
                 get_inverters(message))

\* data.decode("utf-8") and then the decoder: a chunk that is not UTF-8 raises
\* inside the try block.
Decoded(m, dict) ==
    IF ~m.ok THEN [outcome |-> "raise", ecu |-> dict] ELSE Decode(m.text, dict)

Process(bytes, dict) == Decoded(Utf8Decode(bytes), dict)

\* ----------------------------------------------- the chunks devices send

END == <<"E", "N", "D">>

\* One inverter sub-record as the ECU lays it out after an END token: the uid
\* (its first three characters the model code), frequency, temperature and,
\* per channel, voltage, current and power at the offsets get_inverters reads.
Channel(v, c, p) == v \o Rep("0", 6) \o c \o p \o Rep("0", 5)

InvBlock(uid, freq, temp, channels) ==
    END \o uid \o Rep("0", 5) \o freq \o temp \o Rep("0", 23) \o channels

\* A frame: magic, checksum field, the ECU fields at their offsets, the
\* inverter sub-records, and the closing END and newline.
Frame(sum, pad, ecuid, power, life, ts, qty, blocks) ==
    MAGIC \o sum \o pad \o ecuid \o power \o life \o ts \o qty
    \o blocks \o END \o <<"LF">>

FrameLen(blocks) == 77 + Len(blocks) + 4

\* The frame with the checksum field the ECU computes: its length minus one.
Summed(ecuid, power, life, ts, qty, blocks) ==
    Frame(Digits(FrameLen(blocks) - 1, 3), Rep("0", 8), ecuid, power, life, ts,
          qty, blocks)

EcuR == <<"2", "1", "6", "0", "0", "0", "0", "0", "0", "0", "0", "1">>

EcuC == <<"2", "1", "5", "3", "0", "0", "0", "0", "0", "0", "0", "2">>

Power12 == Rep("0", 7) \o <<"1", "2", "3", "4", "5">>

Life18 == Rep("0", 13) \o <<"4", "5", "6", "7", "8">>

TsFresh == <<"2", "0", "2", "4", "0", "1", "0", "1", "0", "0", "1", "0", "0", "0">>

TsOld == <<"2", "0", "2", "4", "0", "1", "0", "1", "0", "0", "0", "9", "5", "9">>

TsBad == <<"2", "0", "2", "4", "1", "3", "0", "1", "0", "0", "1", "0", "0", "0">>

Qty3 == <<"0", "0", "1">>

Uid406 == <<"4", "0", "6", "0", "0", "0", "0", "0", "0", "0", "0", "7">>

Freq5 == <<"0", "0", "4", "9", "9">>

Temp3 == <<"1", "2", "5">>

Chan1 == Channel(<<"3", "1", "2">>, <<"1", "2", "3">>, <<"0", "4", "5">>)

Chan2 == Channel(<<"3", "0", "9">>, <<"1", "1", "9">>, <<"0", "4", "1">>)

Inv406 == InvBlock(Uid406, Freq5, Temp3, Chan1 \o Chan2)

\* A well-formed frame of ECU-R with one two-channel inverter.
FrameFresh == Summed(EcuR, Power12, Life18, TsFresh, Qty3, Inv406)

\* The same from ECU-C, stamped one second earlier.
FrameOld == Summed(EcuC, Power12, Life18, TsOld, Qty3, Inv406)

\* A frame without inverters whose checksum field is " 80": int() strips it.
FrameSpaceSum ==
    Frame(<<" ", "8", "0">>, Rep("0", 8), EcuR, Power12, Life18, TsFresh, Qty3, <<>>)

\* The checksum field is a number, but not the length minus one.
FrameBadSum ==
    Frame(Digits(FrameLen(Inv406), 3), Rep("0", 8), EcuR, Power12, Life18, TsFresh,
          Qty3, Inv406)

\* The checksum field is not a number.
FrameNoSum ==
    Frame(<<"A", "B", "C">>, Rep("0", 8), EcuR, Power12, Life18, TsFresh, Qty3, Inv406)

\* Month 13.
FrameBadTs == Summed(EcuR, Power12, Life18, TsBad, Qty3, Inv406)

\* A letter in the lifetime energy.
FrameBadLife ==
    Summed(EcuR, Power12, Rep("0", 17) \o <<"x">>, TsFresh, Qty3, Inv406)

\* A letter in the temperature of the inverter.
FrameBadInv ==
    Summed(EcuR, Power12, Life18, TsFresh, Qty3,
           InvBlock(Uid406, Freq5, <<"1", "x", "5">>, Chan1 \o Chan2))

\* A two-byte character in the unused field at offset 10: the text is one
\* character shorter than the chunk, and the checksum field counts characters.
FrameAccent ==
    Frame(Digits(80, 3), <<"xC3", "xA9">> \o Rep("0", 7), EcuR, Power12, Life18,
          TsFresh, Qty3, <<>>)

NotMagic == <<"h", "e", "l", "l", "o", " ", "E", "C", "U">>

ShortChunk == <<"A", "P", "S">>

NotUtf8 == <<"xFF", "h", "i">>

Chunks ==
    { FrameFresh, FrameOld, FrameSpaceSum, FrameBadSum, FrameNoSum, FrameBadTs,
      FrameBadLife, FrameBadInv, FrameAccent, NotMagic, ShortChunk, NotUtf8 }

\* ECU ids whose first four digits are the other codes of the 216 table, a
\* code of neither table that begins with 216, and one that begins with
\* neither 215 nor 216.
EcuPro == <<"2", "1", "6", "2", "0", "0", "0", "0", "0", "0", "0", "3">>

EcuB == <<"2", "1", "6", "3", "0", "0", "0", "0", "0", "0", "0", "4">>

Ecu9999 == <<"9", "9", "9", "9", "0", "0", "0", "0", "0", "0", "0", "6">>

Ecu2169 == <<"2", "1", "6", "9", "0", "0", "0", "0", "0", "0", "0", "5">>

\* An inverter whose first three uid digits are in none of the code sets.
Uid999 == <<"9", "9", "9", "0", "0", "0", "0", "0", "0", "0", "0", "8">>

Inv999 == InvBlock(Uid999, Freq5, Temp3, Chan1 \o Chan2)

\* The same inverter with a letter in its temperature.
Inv999BadTemp == InvBlock(Uid999, Freq5, <<"1", "x", "5">>, Chan1 \o Chan2)

\* Only the unknown inverter.
FrameUnknownInv == Summed(EcuR, Power12, Life18, TsFresh, Qty3, Inv999)

\* A known inverter followed by the unknown one.
FrameMixed == Summed(EcuR, Power12, Life18, TsFresh, Qty3, Inv406 \o Inv999)

\* A known inverter followed by the unknown one with the bad temperature.
FrameUnknownBadTemp ==
    Summed(EcuR, Power12, Life18, TsFresh, Qty3, Inv406 \o Inv999BadTemp)

FramePro == Summed(EcuPro, Power12, Life18, TsFresh, Qty3, <<>>)

FrameB == Summed(EcuB, Power12, Life18, TsFresh, Qty3, <<>>)

Frame9999 == Summed(Ecu9999, Power12, Life18, TsFresh, Qty3, <<>>)

Frame2169 == Summed(Ecu2169, Power12, Life18, TsFresh, Qty3, <<>>)

\* Frames that exercise the two catalogs: every ECU code path of get_model
\* and inverter sub-records with and without a known model code.
CatalogChunks ==
    { FrameOld, FramePro, FrameB, Frame2169, Frame9999, FrameUnknownInv,
      FrameMixed, FrameUnknownBadTemp }

\* A four-channel inverter (QS1) with its four channels.
Uid801 == <<"8", "0", "1", "0", "0", "0", "0", "0", "0", "0", "0", "9">>

Chan3 == Channel(<<"2", "9", "8">>, <<"1", "0", "7">>, <<"0", "3", "2">>)

Chan4 == Channel(<<"3", "0", "1">>, <<"0", "9", "8">>, <<"0", "2", "9">>)

Inv801 == InvBlock(Uid801, Freq5, Temp3, Chan1 \o Chan2 \o Chan3 \o Chan4)

\* The same inverter with the data of two channels only.
Inv801Short == InvBlock(Uid801, Freq5, Temp3, Chan1 \o Chan2)

\* The sub-record of Uid406 once more, with another temperature and the
\* channels in the other order.
Temp2 == <<"1", "3", "1">>

Inv406Again == InvBlock(Uid406, Freq5, Temp2, Chan2 \o Chan1)

\* A two-channel and a four-channel inverter.
FrameTwo == Summed(EcuR, Power12, Life18, TsFresh, Qty3, Inv406 \o Inv801)

\* The same uid in the first and in the third sub-record.
FrameDup ==
    Summed(EcuR, Power12, Life18, TsFresh, Qty3, Inv406 \o Inv801 \o Inv406Again)

\* The third channel of the four-channel inverter is read from "END\n".
FrameShort4 == Summed(EcuR, Power12, Life18, TsFresh, Qty3, Inv801Short)

\* The ecu-id APSystems001, power 000012345 in the twelve characters of the
\* field, and the sub-record of Uid406.
EcuAPS == <<"A", "P", "S", "y", "s", "t", "e", "m", "s", "0", "0", "1">>

FrameScenario == Summed(EcuAPS, Power12, Life18, TsFresh, Qty3, Inv406)

\* The same with the token END1 after the sub-record.
FrameScenarioEND1 ==
    Summed(EcuAPS, Power12, Life18, TsFresh, Qty3, Inv406 \o <<"E", "N", "D", "1">>)

\* A frame of the ECU-C with another power and no inverter.
Power34 == Rep("0", 7) \o <<"3", "4", "5", "6", "7">>

FrameOther == Summed(EcuC, Power34, Life18, TsFresh, Qty3, <<>>)

\* What two ECUs send to a proxy whose readings feed the sensors: the ECU-R
\* without and with its inverter, and the ECU-C.
HassChunks == {FrameSpaceSum, FrameFresh, FrameOther}

\* Frames with none, one, two and three sub-records.
RecordChunks ==
    { FrameFresh, FramePro, FrameTwo, FrameDup, FrameMixed, FrameShort4,
      FrameScenario, FrameScenarioEND1 }

\* What the collector answers: b"" when it closes without answering.
Responses == { <<>>, <<"1", "0", "1", "LF">> }

\* ------------------------------------------------------------ the clock

\* Seconds from 2000-01-01 00:00:00 to the datetime dt (the proleptic
\* Gregorian calendar, as datetime subtracts).
LeapsBefore(y) == ((y - 1) \div 4) - ((y - 1) \div 100) + ((y - 1) \div 400)

RECURSIVE DaysBeforeMonth(_, _)
DaysBeforeMonth(y, m) ==
    IF m = 1 THEN 0 ELSE DaysBeforeMonth(y, m - 1) + DaysInMonth(y, m - 1)

Epoch(dt) ==
    LET days == (dt.year - 2000) * 365 + LeapsBefore(dt.year) - LeapsBefore(2000)
                + DaysBeforeMonth(dt.year, dt.month) + dt.day - 1
    IN  ((days * 24 + dt.hour) * 60 + dt.minute) * 60 + dt.second

\* The ten minutes of the disabled age test (time_diff_min > 10), in seconds.
StaleAfter == 600

\* The instant of the run: the handler never reads the clock, so one instant
\* stands for the time of every step.  FrameFresh is 600 seconds old then and
\* FrameOld 601.
Now == Epoch(Strptime(TsFresh)) + StaleAfter

\* ------------------------------------------------------------ the state

SOCKET_PORTS == <<8995, 8996, 8997>>

\* reader.read(1024)
ReadSize == 1024

Conns == {"c1", "c2"}

\* The reads the devices are given in one run, over all connections.
MaxReads == 2

VARIABLES
    pc,          \* pc[c]: where the handler of connection c stands
    port,        \* port[c]: self.port of the listener that accepted c
    data,        \* data[c]: the chunk of the current turn of the loop
    ecu,         \* ecu[c]: the dict ecu of the handler
    exit,        \* exit[c]: how the handler ended, "" while it runs
    emaSent,     \* emaSent[c]: what c's forwarder wrote to the collector, and where
    emaReplies,  \* emaReplies[c]: what the collector answered to c's forwarder
    devOut,      \* devOut[c]: what the handler wrote to the device
    calls,       \* the calls of the callback, in order
    nreads,      \* nreads[c]: the non-empty chunks read from c
    server,      \* server[i]: self.server of the MySocketAPI of SOCKET_PORTS[i]
    shutdown,    \* async_shutdown has run
    emaOpen,     \* emaOpen[c]: connections to the collector c's forwarder holds open
    inbound,     \* inbound[c]: the socket of connection c
    setup,       \* how far _async_complete_setup has come
    fired,       \* MESSAGE_EVENT was fired on the bus
    registry,    \* the identifiers of the devices of the device registry
    dispatched,  \* the register signals async_update_callback has sent, in order
    entities,    \* the sensors added to the instance
    adding       \* the batches given to add_entities and not added yet

vars == <<pc, port, data, ecu, exit, emaSent, emaReplies, devOut, calls, nreads,
          server, shutdown, emaOpen, inbound, setup, fired, registry, dispatched,
          entities, adding>>

\* The state of the coordinator's side: the device registry, the dispatcher
\* and the sensor platform.
hassVars == <<setup, fired, registry, dispatched, entities, adding>>

\* async_setup_entry has returned: the listener of MESSAGE_EVENT waits, no
\* device and no entity of the config entry exists (a first installation).
HassIdle ==
    /\ setup = "waiting"
    /\ fired = FALSE
    /\ registry = {}
    /\ dispatched = <<>>
    /\ entities = {}
    /\ adding = <<>>

RECURSIVE Sum(_, _)
Sum(f, S) ==
    IF S = {} THEN 0
    ELSE LET x == CHOOSE y \in S : TRUE IN f[x] + Sum(f, S \ {x})

\* No connection yet.
NoConnections ==
    /\ pc = [c \in Conns |-> "idle"]
    /\ port = [c \in Conns |-> 0]
    /\ data = [c \in Conns |-> <<>>]
    /\ ecu = [c \in Conns |-> EmptyDict]
    /\ exit = [c \in Conns |-> ""]
    /\ emaSent = [c \in Conns |-> <<>>]
    /\ emaReplies = [c \in Conns |-> <<>>]
    /\ devOut = [c \in Conns |-> <<>>]
    /\ calls = <<>>
    /\ nreads = [c \in Conns |-> 0]
    /\ emaOpen = [c \in Conns |-> 0]
    /\ inbound = [c \in Conns |-> "none"]

\* setup_socket_servers has run and every port was bound.
Init ==
    /\ NoConnections
    /\ HassIdle
    /\ server = [i \in 1..Len(SOCKET_PORTS) |-> "listening"]
    /\ shutdown = FALSE

\* The listening socket of port p is open.
Listening(p) == \E i \in 1..Len(SOCKET_PORTS) : SOCKET_PORTS[i] = p /\ server[i] = "listening"

\* asyncio.start_server accepts a connection on the listener of port p and
\* starts data_received for it: ecu = {} and the first reader.read is awaited.
Accept(c, p) ==
    /\ pc[c] = "idle"
    /\ Listening(p)
    /\ inbound' = [inbound EXCEPT ![c] = "open"]
    /\ pc' = [pc EXCEPT ![c] = "read"]
    /\ port' = [port EXCEPT ![c] = p]
    /\ ecu' = [ecu EXCEPT ![c] = EmptyDict]
    /\ UNCHANGED <<data, exit, emaSent, emaReplies, devOut, calls, nreads, server, shutdown, emaOpen>>
    /\ UNCHANGED hassVars

\* Where the handler goes after the synchronous part of a turn.
AfterDecode(outcome) ==
    CASE outcome = "skip" -> "read"
      [] outcome = "checksum" -> "done"
      [] outcome = "raise" -> "done"
      [] outcome = "forward" -> "ema_connect"

ExitAfter(outcome) ==
    CASE outcome = "checksum" -> "checksum"
      [] outcome = "raise" -> "exception"
      [] OTHER -> ""

\* Turn with one dict shared by every connection instead of one per handler.
TurnSharedDict(c, r) ==
    /\ ecu' = [d \in Conns |-> r.ecu]
    /\ pc' = [pc EXCEPT ![c] = AfterDecode(r.outcome)]
    /\ exit' = [exit EXCEPT ![c] = ExitAfter(r.outcome)]

\* The local ecu, the next await of the handler and the way it returned.
Turn(c, r) ==
    /\ ecu' = [ecu EXCEPT ![c] = r.ecu]
    /\ pc' = [pc EXCEPT ![c] = AfterDecode(r.outcome)]
    /\ exit' = [exit EXCEPT ![c] = ExitAfter(r.outcome)]

\* What the decoding of each chunk assigns, starting from an empty dict.
AllChunks == Chunks \cup CatalogChunks \cup RecordChunks \cup HassChunks

Parsed == [chunk \in AllChunks |-> Process(chunk, EmptyDict)]

\* The same assignments made on the dict of the connection, which lives for
\* the whole loop: keys assigned in this turn replace those of earlier turns.
\* The dict updated with setdefault: a key assigned in an earlier turn stays.
OnDictKeepOld(r, dict) == [outcome |-> r.outcome, ecu |-> dict @@ r.ecu]

OnDict(r, dict) == [outcome |-> r.outcome, ecu |-> r.ecu @@ dict]

\* reader.read returns a non-empty chunk; the handler decodes it and, with
\* every field parsed, calls send_data_to_ema, which awaits open_connection.
ReadChunk(c, chunk) ==
    /\ pc[c] = "read"
    /\ Len(chunk) <= ReadSize
    /\ data' = [data EXCEPT ![c] = chunk]
    /\ Turn(c, OnDict(Parsed[chunk], ecu[c]))
    /\ nreads' = [nreads EXCEPT ![c] = @ + 1]
    /\ UNCHANGED <<port, emaSent, emaReplies, devOut, calls, server, shutdown, emaOpen, inbound>>
    /\ UNCHANGED hassVars

\* The reads of a run are bounded by MaxReads.
Read(c, chunk) == Sum(nreads, Conns) < MaxReads /\ ReadChunk(c, chunk)

\* reader.read returns b"": "Client disconnected", return.
ReadEof(c) ==
    /\ pc[c] = "read"
    /\ data' = [data EXCEPT ![c] = <<>>]
    /\ pc' = [pc EXCEPT ![c] = "done"]
    /\ exit' = [exit EXCEPT ![c] = "eof"]
    /\ UNCHANGED <<port, ecu, emaSent, emaReplies, devOut, calls, nreads, server, shutdown, emaOpen, inbound>>
    /\ UNCHANGED hassVars

\* reader.read raises (connection reset by peer): the await is outside the try
\* block, the exception ends the handler's task.  The transport has closed the
\* socket on the error.
ReadReset(c) ==
    /\ pc[c] = "read"
    /\ pc' = [pc EXCEPT ![c] = "done"]
    /\ exit' = [exit EXCEPT ![c] = "unhandled"]
    /\ inbound' = [inbound EXCEPT ![c] = "closed"]
    /\ UNCHANGED <<port, data, ecu, emaSent, emaReplies, devOut, calls, nreads, server, shutdown, emaOpen>>
    /\ UNCHANGED hassVars

\* ForwardPort with the port of the first listener written into the call.
ForwardFirstPort(c) == SOCKET_PORTS[1]

\* The arguments of self.send_data_to_ema(self.port, data).
ForwardPort(c) == port[c]

ForwardPayload(c) == data[c]

\* AfterSend of a forwarder that is started and not awaited: the loop reads on.
AfterSendNoAwait == "read"

\* Where the handler stands once send_data_to_ema has written the payload.
AfterSend == "ema_drain"

\* send_data_to_ema: open_connection("3.67.1.32", port) succeeds and the
\* payload is written to the collector; writer.drain is awaited.
EmaConnect(c) ==
    /\ pc[c] = "ema_connect"
    /\ emaSent' = [emaSent EXCEPT ![c] =
                      Append(@, [port |-> ForwardPort(c), payload |-> ForwardPayload(c)])]
    /\ pc' = [pc EXCEPT ![c] = AfterSend]
    /\ emaOpen' = [emaOpen EXCEPT ![c] = @ + 1]
    /\ UNCHANGED <<port, data, ecu, exit, emaReplies, devOut, calls, nreads, server, shutdown, inbound>>
    /\ UNCHANGED hassVars

\* send_data_to_ema: writer.drain returns; reader.read(1024) is awaited.
EmaDrain(c) ==
    /\ pc[c] = "ema_drain"
    /\ pc' = [pc EXCEPT ![c] = "ema_read"]
    /\ UNCHANGED <<port, data, ecu, exit, emaSent, emaReplies, devOut, calls, nreads, server, shutdown, emaOpen, inbound>>
    /\ UNCHANGED hassVars

\* What writer.write(response) hands to the device's socket.
WriteBack(response) == response

\* send_data_to_ema: reader.read returns the collector's answer, which is
\* returned; the handler writes it to the device and awaits writer.drain.
EmaRead(c, r) ==
    /\ pc[c] = "ema_read"
    /\ emaReplies' = [emaReplies EXCEPT ![c] = Append(@, r)]
    /\ devOut' = [devOut EXCEPT ![c] = Append(@, WriteBack(r))]
    /\ pc' = [pc EXCEPT ![c] = "drain"]
    /\ UNCHANGED <<port, data, ecu, exit, emaSent, calls, nreads, server, shutdown, emaOpen, inbound>>
    /\ UNCHANGED hassVars

\* send_data_to_ema: open_connection, drain or read raises; the exception
\* reaches the except clause of the handler: warning, return None.
EmaFail(c) ==
    /\ pc[c] \in {"ema_connect", "ema_drain", "ema_read"}
    /\ pc' = [pc EXCEPT ![c] = "done"]
    /\ exit' = [exit EXCEPT ![c] = "exception"]
    /\ UNCHANGED <<port, data, ecu, emaSent, emaReplies, devOut, calls, nreads, server, shutdown, emaOpen, inbound>>
    /\ UNCHANGED hassVars

\* self.callback(ecu)
Callback(c) == Append(calls, [conn |-> c, ecu |-> ecu[c]])

\* What the caller holds after the i-th call: self.callback(ecu) passes the
\* handler's dict itself (the coordinator keeps it as self.data), and the
\* handler goes on assigning to that dict in later turns of its loop.
Held(i) == ecu[calls[i].conn]

\* The handler's writer.drain returns: the callback is called with the dict
\* and the loop awaits the next read.
Drain(c) ==
    /\ pc[c] = "drain"
    /\ calls' = Callback(c)
    /\ pc' = [pc EXCEPT ![c] = "read"]
    /\ UNCHANGED <<port, data, ecu, exit, emaSent, emaReplies, devOut, nreads, server, shutdown, emaOpen, inbound>>
    /\ UNCHANGED hassVars

\* The handler's writer.drain raises (connection reset by peer, the transport
\* has closed the socket): the except clause logs the warning and returns None.
DrainFail(c) ==
    /\ pc[c] = "drain"
    /\ pc' = [pc EXCEPT ![c] = "done"]
    /\ exit' = [exit EXCEPT ![c] = "exception"]
    /\ inbound' = [inbound EXCEPT ![c] = "closed"]
    /\ UNCHANGED <<port, data, ecu, emaSent, emaReplies, devOut, calls, nreads, server, shutdown, emaOpen>>
    /\ UNCHANGED hassVars

\* self.callback(ecu) raises: the call is inside the try block, the except
\* clause logs the warning and returns None.
CallbackRaise(c) ==
    /\ pc[c] = "drain"
    /\ calls' = Callback(c)
    /\ pc' = [pc EXCEPT ![c] = "done"]
    /\ exit' = [exit EXCEPT ![c] = "exception"]
    /\ UNCHANGED <<port, data, ecu, emaSent, emaReplies, devOut, nreads,
                   server, shutdown, emaOpen, inbound>>
    /\ UNCHANGED hassVars

\* send_data_to_ema has returned or raised and never called writer.close():
\* the connection stays open until the interpreter finalizes the StreamWriter
\* (StreamWriter.__del__ closes the transport where the runtime has one).
EmaFinalize(c) ==
    /\ emaOpen[c] > 0
    /\ pc[c] \notin {"ema_drain", "ema_read"}
    /\ emaOpen' = [emaOpen EXCEPT ![c] = @ - 1]
    /\ UNCHANGED <<pc, port, data, ecu, exit, emaSent, emaReplies, devOut, calls,
                   nreads, server, shutdown, inbound>>
    /\ UNCHANGED hassVars

Next ==
    \/ \E c \in Conns, i \in 1..Len(SOCKET_PORTS) : Accept(c, SOCKET_PORTS[i])
    \/ \E c \in Conns, chunk \in Chunks : Read(c, chunk)
    \/ \E c \in Conns : ReadEof(c)
    \/ \E c \in Conns : ReadReset(c)
    \/ \E c \in Conns : EmaConnect(c)
    \/ \E c \in Conns : EmaDrain(c)
    \/ \E c \in Conns, r \in Responses : EmaRead(c, r)
    \/ \E c \in Conns : EmaFail(c)
    \/ \E c \in Conns : Drain(c)
    \/ \E c \in Conns : DrainFail(c)
    \/ \E c \in Conns : CallbackRaise(c)

\* The connection handlers of a proxy whose three listeners are up.
Spec == Init /\ [][Next]_vars

\* The handler has returned on an empty read and never called writer.close():
\* the socket of the half-closed connection stays open until the interpreter
\* collects the stream objects.  After the other returns the transport is
\* still registered for reading and is not collected.
InboundFinalize(c) ==
    /\ pc[c] = "done"
    /\ exit[c] = "eof"
    /\ inbound[c] = "open"
    /\ inbound' = [inbound EXCEPT ![c] = "closed"]
    /\ UNCHANGED <<pc, port, data, ecu, exit, emaSent, emaReplies, devOut, calls,
                   nreads, server, shutdown, emaOpen>>
    /\ UNCHANGED hassVars

\* The handlers together with the finalization of the streams they abandon.
NextFinalized ==
    \/ Next
    \/ \E c \in Conns : EmaFinalize(c)
    \/ \E c \in Conns : InboundFinalize(c)

SpecFinalized == Init /\ [][NextFinalized]_vars

\* self.send_data_to_ema replaced by a no-op that returns None (forwarding
\* switched off): no connection is opened; writer.write(None) raises TypeError
\* inside the try block, the except clause logs the warning and returns None.
EmaNone(c) ==
    /\ pc[c] = "ema_connect"
    /\ pc' = [pc EXCEPT ![c] = "done"]
    /\ exit' = [exit EXCEPT ![c] = "exception"]
    /\ UNCHANGED <<port, data, ecu, emaSent, emaReplies, devOut, calls, nreads,
                   server, shutdown, emaOpen, inbound>>
    /\ UNCHANGED hassVars

NextStubbed ==
    \/ \E c \in Conns, i \in 1..Len(SOCKET_PORTS) : Accept(c, SOCKET_PORTS[i])
    \/ \E c \in Conns, chunk \in Chunks : Read(c, chunk)
    \/ \E c \in Conns : ReadEof(c)
    \/ \E c \in Conns : ReadReset(c)
    \/ \E c \in Conns : EmaNone(c)

\* The handlers of a proxy whose forwarder is the no-op.
SpecStubbed == Init /\ [][NextStubbed]_vars

\* The handlers of the connections to the first listener, fed with the
\* frames of CatalogChunks: the decoding does not read the port.
NextCatalog ==
    \/ \E c \in Conns : Accept(c, SOCKET_PORTS[1])
    \/ \E c \in Conns, chunk \in CatalogChunks : Read(c, chunk)
    \/ \E c \in Conns : ReadEof(c)
    \/ \E c \in Conns : ReadReset(c)
    \/ \E c \in Conns : EmaConnect(c)
    \/ \E c \in Conns : EmaDrain(c)
    \/ \E c \in Conns, r \in Responses : EmaRead(c, r)
    \/ \E c \in Conns : EmaFail(c)
    \/ \E c \in Conns : Drain(c)
    \/ \E c \in Conns : DrainFail(c)
    \/ \E c \in Conns : CallbackRaise(c)

SpecCatalog == Init /\ [][NextCatalog]_vars

\* The same handlers fed with the frames of RecordChunks.
NextRecords ==
    \/ \E c \in Conns : Accept(c, SOCKET_PORTS[1])
    \/ \E c \in Conns, chunk \in RecordChunks : Read(c, chunk)
    \/ \E c \in Conns : ReadEof(c)
    \/ \E c \in Conns : ReadReset(c)
    \/ \E c \in Conns : EmaConnect(c)
    \/ \E c \in Conns : EmaDrain(c)
    \/ \E c \in Conns, r \in Responses : EmaRead(c, r)
    \/ \E c \in Conns : EmaFail(c)
    \/ \E c \in Conns : Drain(c)
    \/ \E c \in Conns : DrainFail(c)
    \/ \E c \in Conns : CallbackRaise(c)

SpecRecords == Init /\ [][NextRecords]_vars

\* ------------------------------------------------- the set of listeners

Ports == 1..Len(SOCKET_PORTS)

\* self.socket_servers: the MySocketAPI objects appended so far, by index.
socket_servers == {i \in Ports : server[i] # "unset"}

handlerVars == <<pc, port, data, ecu, exit, emaSent, emaReplies, devOut, calls, nreads,
                 emaOpen, inbound>>

\* NextPort of a loop that an OSError of an earlier port has ended.
NextPortUnlessFailed(i) ==
    /\ ~shutdown
    /\ server[i] = "unset"
    /\ \A j \in Ports : j < i => server[j] \in {"listening", "closed"}

\* The turn of the loop of setup_socket_servers for SOCKET_PORTS[i].  The loop
\* runs as a background task of the config entry, which ends with the entry:
\* no port is started once async_shutdown has run.
NextPort(i) ==
    /\ ~shutdown
    /\ server[i] = "unset"
    /\ \A j \in Ports : j < i => server[j] # "unset"

\* What start() leaves in self.server when asyncio.start_server raises OSError.
StartFailed == "none"

\* server.start() binds the port and listens; the object is appended.
Start(i) ==
    /\ NextPort(i)
    /\ server' = [server EXCEPT ![i] = "listening"]
    /\ UNCHANGED <<handlerVars, shutdown>>
    /\ UNCHANGED hassVars

\* asyncio.start_server raises OSError: start() logs it and returns False,
\* self.server stays None; the object is appended all the same.
StartFail(i) ==
    /\ NextPort(i)
    /\ server' = [server EXCEPT ![i] = StartFailed]
    /\ UNCHANGED <<handlerVars, shutdown>>
    /\ UNCHANGED hassVars

\* The first object of socket_servers whose self.server is None, or one past
\* the last port: stop() raises AttributeError there and the loop ends.
FirstNone == CHOOSE i \in 1..Len(SOCKET_PORTS) + 1 :
    /\ i \in Ports => server[i] = "none"
    /\ \A j \in Ports : j < i => server[j] # "none"

\* self.server.close() of the objects the loop of async_shutdown reaches.
Stopped(i) ==
    IF i \in socket_servers /\ i < FirstNone /\ server[i] = "listening"
    THEN "closed" ELSE server[i]

\* async_shutdown: socket_server.stop() for each object of socket_servers, in
\* order and without an await in between.
Shutdown ==
    /\ ~shutdown
    /\ shutdown' = TRUE
    /\ server' = [i \in Ports |-> Stopped(i)]
    /\ UNCHANGED handlerVars
    /\ UNCHANGED hassVars

\* Chunks the devices send in the runs of the whole proxy.
SystemChunks == {FrameFresh, FrameBadSum, NotUtf8}

InitSystem ==
    /\ HassIdle
    /\ NoConnections
    /\ server = [i \in Ports |-> "unset"]
    /\ shutdown = FALSE

NextSystem ==
    \/ \E i \in Ports : Start(i)
    \/ \E i \in Ports : StartFail(i)
    \/ Shutdown
    \/ \E c \in Conns, i \in Ports : Accept(c, SOCKET_PORTS[i])
    \/ \E c \in Conns, chunk \in SystemChunks : Read(c, chunk)
    \/ \E c \in Conns : ReadEof(c)
    \/ \E c \in Conns : ReadReset(c)
    \/ \E c \in Conns : EmaConnect(c)
    \/ \E c \in Conns : EmaDrain(c)
    \/ \E c \in Conns, r \in Responses : EmaRead(c, r)
    \/ \E c \in Conns : EmaFail(c)
    \/ \E c \in Conns : Drain(c)
    \/ \E c \in Conns : DrainFail(c)
    \/ \E c \in Conns : CallbackRaise(c)

\* The whole proxy: listeners set up and shut down, and connections handled.
SpecSystem == InitSystem /\ [][NextSystem]_vars

\* setup_socket_servers has run and the last port was in use: its listener
\* is missing and the others are up.
InitBound ==
    /\ NoConnections
    /\ HassIdle
    /\ server = [i \in 1..Len(SOCKET_PORTS) |->
                    IF i < Len(SOCKET_PORTS) THEN "listening" ELSE StartFailed]
    /\ shutdown = FALSE

\* The connection handlers of a proxy whose last listener is missing.
SpecBound == InitBound /\ [][Next]_vars

\* ------------------------------------------ the coordinator and the sensors

\* The keys of ECU_SENSORS, INVERTER_SENSORS and INVERTER_CHANNEL_SENSORS.
ECU_SENSORS ==
    << "current_power", "hourly_energy_production", "daily_energy_production",
       "lifetime_energy_production", "qty_of_online_inverters" >>

INVERTER_SENSORS == <<"temperature", "frequency">>

INVERTER_CHANNEL_SENSORS == <<"power", "voltage", "current">>

\* Python's None.
None == "None"

\* SensorExtraData and the class of the entity: kind is "ecu" for
\* APSystemsSensor, "inverter" for APSystemsInverterSensor and "channel" for
\* APSystemsInverterChannelSensor; channel is 0 where inverter_channel is None.
Sensor(kind, ecu_id, inverter_id, parameter, channel) ==
    [kind |-> kind, ecu_id |-> ecu_id, inverter_id |-> inverter_id,
     parameter |-> parameter, channel |-> channel]

\* The tuple (DOMAIN, "ecu_<id>") or (DOMAIN, "inverter_<uid>").
Device(kind, id) == [kind |-> kind, id |-> id]

\* device_info of an entity: the identifiers its device is registered with.
device_info(s) ==
    IF s.kind = "ecu" THEN Device("ecu", s.ecu_id) ELSE Device("inverter", s.inverter_id)

\* coordinator.get_device(identifiers)
get_device(device) == device \in registry

\* dict.get(key)
DictGet(dict, key) == IF key \in DOMAIN dict THEN dict[key] ELSE None

\* data.get("inverters", {})
InvertersOf(dict) == IF "inverters" \in DOMAIN dict THEN dict["inverters"] ELSE <<>>

\* inverter["ecu-id"] = self.data.get("ecu-id")
WithEcuId(inverter, ecu_id) == ("ecu-id" :> ecu_id) @@ inverter

\* handle_ecu_registration(data): the sensors given to add_entities.
handle_ecu_registration(dict) ==
    {Sensor("ecu", DictGet(dict, "ecu-id"), None, ECU_SENSORS[k], 0) :
        k \in 1..Len(ECU_SENSORS)}

\* handle_inverter_registration(data): the sensors given to add_entities.
handle_inverter_registration(inverter) ==
    {Sensor("inverter", inverter["ecu-id"], inverter.uid, INVERTER_SENSORS[k], 0) :
        k \in 1..Len(INVERTER_SENSORS)}
    \cup
    {Sensor("channel", inverter["ecu-id"], inverter.uid, INVERTER_CHANNEL_SENSORS[k], ch) :
        k \in 1..Len(INVERTER_CHANNEL_SENSORS), ch \in 1..inverter.channel_qty}

\* The places of the inverters of the dict that get_device does not find.
NewInverters(dict) ==
    SelectSeq([k \in 1..Len(InvertersOf(dict)) |-> k],
              LAMBDA k : ~get_device(Device("inverter", InvertersOf(dict)[k].uid)))

\* The dict after the loop of async_update_callback: the inverters that are
\* not registered carry the ecu-id.
Marked(dict) ==
    IF "inverters" \notin DOMAIN dict THEN dict
    ELSE Put(dict, "inverters",
             [k \in 1..Len(dict["inverters"]) |->
                IF get_device(Device("inverter", dict["inverters"][k].uid))
                THEN dict["inverters"][k]
                ELSE WithEcuId(dict["inverters"][k], DictGet(dict, "ecu-id"))])

\* The signals async_update_callback sends for the dict, in order.
Signals(dict) ==
    (IF get_device(Device("ecu", DictGet(dict, "ecu-id"))) THEN <<>>
     ELSE <<[signal |-> "ecu_register", id |-> DictGet(dict, "ecu-id")]>>)
    \o [j \in 1..Len(NewInverters(dict)) |->
          [signal |-> "inverter_register",
           id |-> InvertersOf(dict)[NewInverters(dict)[j]].uid]]

\* What the listeners of the signals give to add_entities, in order; the
\* listeners are connected when the sensor platform has been set up.
Batches(dict) ==
    IF setup # "done" THEN <<>>
    ELSE (IF get_device(Device("ecu", DictGet(dict, "ecu-id"))) THEN <<>>
          ELSE <<handle_ecu_registration(dict)>>)
         \o [j \in 1..Len(NewInverters(dict)) |->
               handle_inverter_registration(
                   WithEcuId(InvertersOf(dict)[NewInverters(dict)[j]],
                             DictGet(dict, "ecu-id")))]

\* The result of a native_value: ok is false where it raises and val is
\* then the exception; some is false where it returns None.
Returned(dict, key) ==
    [ok |-> TRUE, some |-> key \in DOMAIN dict, val |-> DictGet(dict, key)]

Raised(exception) == [ok |-> FALSE, some |-> FALSE, val |-> exception]

\* native_value of a sensor whose coordinator.data is the dict.  An empty
\* dict is false, and a sensor of a first installation has no restored
\* state: None.
NativeValue(dict, s) ==
    IF DOMAIN dict = {} THEN Returned(dict, s.parameter)
    ELSE IF s.kind = "ecu" THEN Returned(dict, s.parameter)
    ELSE IF \A k \in 1..Len(InvertersOf(dict)) : InvertersOf(dict)[k].uid # s.inverter_id
    THEN Raised("AttributeError")
    ELSE LET inverter == InvertersOf(dict)[CHOOSE k \in 1..Len(InvertersOf(dict)) :
                                              InvertersOf(dict)[k].uid = s.inverter_id]
         IN  IF s.kind = "inverter" THEN Returned(inverter, s.parameter)
             ELSE IF s.parameter \notin DOMAIN inverter THEN Raised("TypeError")
             ELSE IF s.channel > Len(inverter[s.parameter]) THEN Raised("IndexError")
             ELSE [ok |-> TRUE, some |-> TRUE, val |-> inverter[s.parameter][s.channel]]

\* coordinator.data is the dict of the last call of the callback, the very
\* object the handler goes on assigning to; None before the first call.
HasData == calls # <<>>

coordinator_data == Held(Len(calls))

native_value(s) ==
    IF ~HasData THEN Returned(EmptyDict, s.parameter) ELSE NativeValue(coordinator_data, s)

\* async_set_updated_data calls the update listener of every entity, which
\* writes its state from native_value; an exception leaves through the
\* callback and reaches the except clause of the handler.
ListenersRaise(dict) == \E s \in entities : ~NativeValue(dict, s).ok

\* The reads of the devices, over all connections, in a run of the proxy with
\* its sensors.
MaxDeliveries == 3

ReadHass(c, chunk) == Sum(nreads, Conns) < MaxDeliveries /\ ReadChunk(c, chunk)

\* The handler's writer.drain returns and self.callback(ecu) is
\* async_update_callback: self.data = data, the register signals for the ECU
\* and the inverters get_device does not find, then async_set_updated_data.
DrainUpdate(c) ==
    /\ pc[c] = "drain"
    /\ calls' = Callback(c)
    /\ dispatched' = dispatched \o Signals(ecu[c])
    /\ adding' = adding \o Batches(ecu[c])
    /\ ecu' = [ecu EXCEPT ![c] = Marked(ecu[c])]
    /\ pc' = [pc EXCEPT ![c] = IF ListenersRaise(Marked(ecu[c])) THEN "done" ELSE "read"]
    /\ exit' = [exit EXCEPT ![c] = IF ListenersRaise(Marked(ecu[c])) THEN "exception" ELSE @]
    /\ UNCHANGED <<port, data, emaSent, emaReplies, devOut, nreads, server, shutdown,
                   emaOpen, inbound, setup, fired, registry, entities>>

\* Something outside this repository fires MESSAGE_EVENT on the bus of the
\* instance; the listener was registered with async_listen_once.
ExternalFire ==
    /\ ~fired
    /\ fired' = TRUE
    /\ UNCHANGED <<pc, port, data, ecu, exit, emaSent, emaReplies, devOut, calls, nreads,
                   server, shutdown, emaOpen, inbound, setup, registry, dispatched,
                   entities, adding>>

\* The devices _async_complete_setup registers from coordinator.data.
SetupDevicesOf(dict) ==
    {Device("ecu", DictGet(dict, "ecu-id"))}
    \cup {Device("inverter", InvertersOf(dict)[k].uid) : k \in 1..Len(InvertersOf(dict))}

\* _async_complete_setup up to its await: coordinator.data.get raises
\* AttributeError while coordinator.data is None, else the ECU and the
\* inverters of coordinator.data are put into the device registry.
SetupDevices ==
    /\ fired
    /\ setup = "waiting"
    /\ setup' = IF HasData THEN "devices" ELSE "failed"
    /\ registry' = IF HasData THEN registry \cup SetupDevicesOf(coordinator_data) ELSE registry
    /\ UNCHANGED <<pc, port, data, ecu, exit, emaSent, emaReplies, devOut, calls, nreads,
                   server, shutdown, emaOpen, inbound, fired, dispatched, entities, adding>>

\* async_forward_entry_setups returns: async_setup_entry of the sensor
\* platform has connected the two listeners and restored no sensor.
SetupPlatform ==
    /\ setup = "devices"
    /\ setup' = "done"
    /\ UNCHANGED <<pc, port, data, ecu, exit, emaSent, emaReplies, devOut, calls, nreads,
                   server, shutdown, emaOpen, inbound, fired, registry, dispatched,
                   entities, adding>>

\* The platform adds the sensors of one add_entities call: each gets its
\* entity and, from device_info, its device; a sensor whose unique id exists
\* is not added again.
AddEntities ==
    /\ adding # <<>>
    /\ entities' = entities \cup Head(adding)
    /\ registry' = registry \cup {device_info(s) : s \in Head(adding)}
    /\ adding' = Tail(adding)
    /\ UNCHANGED <<pc, port, data, ecu, exit, emaSent, emaReplies, devOut, calls, nreads,
                   server, shutdown, emaOpen, inbound, setup, fired, dispatched>>

\* The answer of the collector in the runs with the sensors.
Ack == <<"1", "0", "1", "LF">>

NextHass ==
    \/ \E c \in Conns : Accept(c, SOCKET_PORTS[1])
    \/ \E c \in Conns, chunk \in HassChunks : ReadHass(c, chunk)
    \/ \E c \in Conns : EmaConnect(c)
    \/ \E c \in Conns : EmaDrain(c)
    \/ \E c \in Conns : EmaRead(c, Ack)
    \/ \E c \in Conns : DrainUpdate(c)
    \/ ExternalFire
    \/ SetupDevices
    \/ SetupPlatform
    \/ AddEntities

\* The proxy with the coordinator and the sensor platform of the
\* integration: the devices are answered by the collector and stay connected.
SpecHass == Init /\ [][NextHass]_vars

\* The same with the steps the event loop runs by itself: the listener of a
\* fired event, the platform set-up it awaits and the tasks of add_entities.
\* When devices send and whether the event is fired is left to others.
SpecHassFair ==
    /\ SpecHass
    /\ WF_vars(SetupDevices)
    /\ WF_vars(SetupPlatform)
    /\ WF_vars(AddEntities)
    /\ WF_vars(\E c \in Conns : DrainUpdate(c))

\* ----------------------------------------------------------- the claims

Text(chunk) == Utf8Decode(chunk).text

IsText(chunk) == Utf8Decode(chunk).ok

HasMagic(chunk) == IsText(chunk) /\ Slice(Text(chunk), 0, 7) = MAGIC

ChecksumField(chunk) == PyInt(Slice(Text(chunk), 7, 10))

\* The checksum field is a number and equals the length of the frame minus 1
\* (the length len(message) of the decoded text, which the handler compares).
ChecksumOk(chunk) ==
    /\ IsText(chunk)
    /\ ChecksumField(chunk).ok
    /\ ChecksumField(chunk).val = Len(Text(chunk)) - 1

ChecksumWrong(chunk) ==
    /\ HasMagic(chunk)
    /\ ChecksumField(chunk).ok
    /\ ChecksumField(chunk).val # Len(Text(chunk)) - 1

\* A frame with valid magic and checksum in which a field does not parse.
FieldError(chunk) ==
    /\ HasMagic(chunk)
    /\ ChecksumOk(chunk)
    /\ Process(chunk, EmptyDict).outcome = "raise"

NumCalls(c) == Cardinality({i \in 1..Len(calls) : calls[i].conn = c})

Last(seq) == seq[Len(seq)]

\* The step calls the callback for connection c.
Emits(c) == Len(calls') = Len(calls) + 1 /\ Last(calls').conn = c

IsDigit(ch) == ch \in Digit

\* The age, at the instant of the run, of a reading handed to the callback.
Age(reading) == Now - Epoch(Strptime(SelectSeq(reading["timestamp"], IsDigit)))

\* The handler's own test: the field equals the number of characters of the
\* decoded text minus 1. A reading is emitted only for chunks that pass it.
EmitOnlyWithTextChecksum ==
    [][\A c \in Conns : Emits(c) => ChecksumOk(data[c])]_vars

\* The checksum field equals the length in bytes of the chunk minus 1.
ByteChecksumOk(chunk) ==
    /\ IsText(chunk)
    /\ ChecksumField(chunk).ok
    /\ ChecksumField(chunk).val = Len(chunk) - 1

\* C1: the callback is called for a chunk only if the 3-digit field at offset
\* 7..10 equals the length of the frame (the chunk read from the socket, in
\* bytes) minus 1; for any other value of the field no reading is emitted.
C1_EmitOnlyWithChecksum ==
    [][\A c \in Conns : Emits(c) => ByteChecksumOk(data[c])]_vars

\* C2: a frame with valid magic and checksum is rejected as stale if and only
\* if now minus its timestamp exceeds 600 seconds: no reading older than 600
\* seconds is ever handed to the callback.
C2_NoStaleReading ==
    \A i \in 1..Len(calls) : Age(calls[i].ecu) <= StaleAfter

\* C3: a frame with the right magic that fails the checksum test is dropped
\* and the connection continues: the handler does not end on it.
C3_ChecksumMismatchContinues ==
    \A c \in Conns : ChecksumWrong(data[c]) => exit[c] = ""

\* C4: when the forwarder fails, the inbound connection is not aborted, the
\* reading of that frame is still handed to the callback and the handler
\* continues with the next read.
C4_ForwardFailureTolerated ==
    [][\A c \in Conns : EmaFail(c) => (pc'[c] = "read" /\ Emits(c))]_vars

\* C5: a frame with valid magic and checksum and an unparseable timestamp or
\* numeric field is dropped without a reading and the connection continues.
C5_FieldErrorContinues ==
    \A c \in Conns : FieldError(data[c]) => exit[c] = ""

\* C6: a non-empty chunk whose first 7 bytes are not APS18AA (a short chunk
\* and a chunk that is not UTF-8 included) is filtered silently: no reading,
\* no error, and the handler goes on to the next read.
C6_NotRecognizedIsSilent ==
    \A c \in Conns :
        (data[c] # <<>> /\ Slice(data[c], 0, 7) # MAGIC) =>
            exit[c] \notin {"checksum", "exception"}

\* C7: within one connection the cycle is sequential: the handler awaits a
\* read only when every payload it forwarded was answered, written back to
\* the device and emitted, and at most one frame is in flight at any time.
C7_Sequential ==
    \A c \in Conns :
        /\ pc[c] = "read" =>
              /\ Len(emaSent[c]) = Len(emaReplies[c])
              /\ Len(emaSent[c]) = Len(devOut[c])
              /\ Len(emaSent[c]) = NumCalls(c)
        /\ Len(emaSent[c]) <= NumCalls(c) + 1

\* A handler that has finished one full cycle reads its second chunk.
C7_Witness ==
    \E c \in Conns : nreads[c] = 2 /\ NumCalls(c) = 1 /\ Len(devOut[c]) = 1

\* C8: every non-empty chunk read from a device is passed to the forwarder,
\* whatever the decoder's outcome: when the handler is back at its read, or
\* has ended on a checksum mismatch, every chunk it read was forwarded.
C8_EveryChunkForwarded ==
    \A c \in Conns :
        (pc[c] = "read" \/ exit[c] = "checksum") => Len(emaSent[c]) = nreads[c]

\* C9: the reading is emitted before the forwarder's response is written
\* back, so a failed write cannot suppress the emission: there are never
\* more responses written to the device than readings emitted for it.
C9_EmitBeforeRespond ==
    \A c \in Conns : Len(devOut[c]) <= NumCalls(c)

\* C10: the proxy is transparent: what is sent to the collector is the chunk
\* read from the device, sent to the port of the listener of the connection,
\* and what is written back to the device is the collector's answer.
C10_Transparent ==
    [][\A c \in Conns :
        /\ emaSent'[c] # emaSent[c] =>
              emaSent'[c] = Append(emaSent[c], [port |-> port[c], payload |-> data[c]])
        /\ devOut'[c] # devOut[c] =>
              /\ Len(emaReplies'[c]) = Len(emaReplies[c]) + 1
              /\ devOut'[c] = Append(devOut[c], Last(emaReplies'[c]))]_vars

\* A frame from a device of the second listener went to the collector and
\* the collector's answer was written back to the device.
C10_Witness ==
    \E c \in Conns :
        /\ port[c] = SOCKET_PORTS[2]
        /\ emaSent[c] = <<[port |-> SOCKET_PORTS[2], payload |-> FrameFresh]>>
        /\ devOut[c] = <<<<"1", "0", "1", "LF">>>>

\* C11: with the forwarder a no-op that returns nothing, the handler opens no
\* outbound connection, writes nothing back, still hands the reading of the
\* frame to the callback and goes on to the next read.
C11_NoResponseTolerated ==
    [][\A c \in Conns :
        EmaNone(c) =>
            /\ emaSent'[c] = emaSent[c]
            /\ devOut'[c] = devOut[c]
            /\ Emits(c)
            /\ pc'[c] = "read"]_vars

\* C12: a reading handed to the callback is the caller's afterwards: whatever
\* the handler does with later frames of the connection, what the caller
\* holds stays the reading as it was emitted.
C12_EmittedReadingUnchanged ==
    \A i \in 1..Len(calls) : Held(i) = calls[i].ecu

\* C13: the forwarder closes the connection it opened before it returns or
\* fails: outside a call of send_data_to_ema a handler holds no open
\* connection to the collector, however many frames it has forwarded.
C13_OutboundClosedOnReturn ==
    \A c \in Conns : pc[c] \notin {"ema_drain", "ema_read"} => emaOpen[c] = 0

\* An empty read ends the handler with no forward, no decoding and no callback.
EmptyReadEndsQuietly ==
    [][\A c \in Conns :
        ReadEof(c) =>
            /\ pc'[c] = "done"
            /\ emaSent'[c] = emaSent[c]
            /\ ecu'[c] = ecu[c]
            /\ calls' = calls]_vars

\* C14: an empty read ends the handler and releases the inbound socket, and
\* whenever a handler has ended its inbound socket is closed, not left open
\* with nobody reading it.
C14_InboundClosedAtEnd ==
    \A c \in Conns : pc[c] = "done" => inbound[c] = "closed"

\* C15: a bind failure on one port disables the listener of that port only:
\* whichever earlier ports failed to bind, setup_socket_servers goes on to
\* start the listener of the next port (as long as the proxy is not shut down).
C15_BindFailureIsLocal ==
    \A i \in Ports :
        (~shutdown /\ server[i] = "unset" /\ \A j \in Ports : j < i => server[j] # "unset")
            => ENABLED Start(i)

\* The first port failed to bind and the two other listeners are up.
C15_Witness ==
    server = <<"none", "listening", "listening">>

\* C16: when async_shutdown has run no configured port has an open listener,
\* whatever the outcome of the start before it.
C16_ShutdownClosesEveryListener ==
    [][Shutdown => \A i \in Ports : server'[i] # "listening"]_vars

\* The step accepts connection c.
Accepts(c) == pc[c] = "idle" /\ pc'[c] = "read"

\* A listener that stop() has closed accepts no connection.
StoppedListenerAcceptsNothing ==
    [][\A c \in Conns : Accepts(c) =>
        \A i \in Ports : SOCKET_PORTS[i] = port'[c] => server[i] = "listening"]_vars

\* async_shutdown leaves the handlers as they are, and a handler accepted
\* before it can still take every step of its loop afterwards.
ShutdownLeavesHandlers ==
    /\ [][Shutdown => handlerVars' = handlerVars]_vars
    /\ [](\A c \in Conns : shutdown =>
            /\ pc[c] = "read" => ENABLED ReadEof(c)
            /\ (pc[c] = "read" /\ Sum(nreads, Conns) < MaxReads) => ENABLED Read(c, FrameFresh)
            /\ pc[c] = "ema_connect" => ENABLED EmaConnect(c)
            /\ pc[c] = "ema_read" => ENABLED EmaRead(c, <<>>)
            /\ pc[c] = "drain" => ENABLED Drain(c))

\* C17: once the set of listeners is stopped no new connection is accepted,
\* and the handlers accepted before are not terminated by the stop.
C17_StopKeepsHandlers ==
    [][/\ shutdown => \A c \in Conns : ~Accepts(c)
       /\ Shutdown => handlerVars' = handlerVars]_vars

\* All there is of connection d: its handler, its streams and the forwarder.
View(d) ==
    <<pc[d], port[d], data[d], ecu[d], exit[d], emaSent[d], emaReplies[d], devOut[d],
      nreads[d], emaOpen[d], inbound[d]>>

\* The step ends the handler of connection c.
Ends(c) == pc[c] # "done" /\ pc'[c] = "done"

\* C18: a handler that ends, on a failure or otherwise, takes nothing else
\* with it: the listeners and every other connection are exactly as before.
C18_FailureIsLocal ==
    [][\A c \in Conns :
        Ends(c) =>
            /\ server' = server
            /\ shutdown' = shutdown
            /\ \A d \in Conns \ {c} : View(d)' = View(d)]_vars

\* One handler has ended on an exception while the other, with a listener
\* still up, is in the middle of a cycle.
C18_Witness ==
    \E c \in Conns, d \in Conns :
        /\ exit[c] \in {"exception", "unhandled"}
        /\ pc[d] = "drain"
        /\ \E i \in Ports : server[i] = "listening"

\* The model codes of the inverter catalog.
CatalogCodes == YC600_MODEL_CODES \cup QS1_MODEL_CODES \cup YC1000_MODEL_CODES

\* Where the sub-records of a frame start, split by whether the three
\* characters after END are a model code of the catalog.
KnownStarts(chunk) ==
    {s \in MatchStarts(Text(chunk)) : Slice(Text(chunk), s + 3, s + 6) \in CatalogCodes}

UnknownStarts(chunk) == MatchStarts(Text(chunk)) \ KnownStarts(chunk)

KnownUids(chunk) == {Slice(Text(chunk), s + 3, s + 15) : s \in KnownStarts(chunk)}

UidsOf(inverters) == {inverters[k].uid : k \in 1..Len(inverters)}

\* C19: when the handler reads an otherwise valid frame (every frame of
\* CatalogChunks has a matching checksum, numeric ECU fields and well-formed
\* sub-records of known models) that holds a sub-record whose model code is
\* not in the catalog, the frame goes on to forwarding and emission, and its
\* inverters mapping holds exactly the sub-records of known models, whatever
\* the other fields of the unknown sub-record contain.
C19_UnknownModelOmitted ==
    [][\A c \in Conns, chunk \in CatalogChunks :
          (UnknownStarts(chunk) # {} /\ Read(c, chunk)) =>
              /\ pc'[c] = "ema_connect"
              /\ UidsOf(ecu'[c]["inverters"]) = KnownUids(chunk)]_vars

\* With numeric temperature and frequency in the unknown sub-record the
\* omission is as stated.
UnknownModelOmittedWhenNumeric ==
    [][\A c \in Conns, chunk \in {FrameUnknownInv, FrameMixed} :
          Read(c, chunk) =>
              /\ pc'[c] = "ema_connect"
              /\ UidsOf(ecu'[c]["inverters"]) = KnownUids(chunk)]_vars

\* The resolution rule as the catalog of ECU models states it.
ResolveModel(code) ==
    IF code = <<"2", "1", "6", "0">> THEN "ECU-R"
    ELSE IF code = <<"2", "1", "6", "2">> THEN "ECU-R Pro"
    ELSE IF code = <<"2", "1", "6", "3">> THEN "ECU-B"
    ELSE IF SubSeq(code, 1, 3) = <<"2", "1", "5">> THEN "ECU-C"
    ELSE "Unknown"

\* A decoded frame on its way to the callback.
Pending(c) == pc[c] \in {"ema_connect", "ema_drain", "ema_read", "drain"}

\* C20: the model of a reading is the name the exact-match table gives the
\* first four digits of its ECU id, else the name the prefix table gives the
\* first three, else "Unknown"; this holds for every decoded frame waiting to
\* be emitted (a frame with an unknown code is decoded and waits like any
\* other) and for every reading handed to the callback.
C20_EcuModelResolution ==
    /\ \A c \in Conns : Pending(c) =>
          /\ ecu[c]["model"] = ResolveModel(Slice(Text(data[c]), 18, 22))
          /\ ecu[c]["ecu-id"] = Slice(Text(data[c]), 18, 30)
    /\ \A i \in 1..Len(calls) :
          calls[i].ecu["model"] = ResolveModel(Slice(calls[i].ecu["ecu-id"], 0, 4))

\* One reading was emitted with the model "Unknown" and another with the
\* model of the prefix table.
C20_Witness ==
    \E i, j \in 1..Len(calls) :
        /\ calls[i].ecu["model"] = "Unknown"
        /\ calls[j].ecu["model"] = "ECU-C"

\* The channel count the catalog gives a model code: two for the YC600/DS3
\* series, four for QS1 and YC1000/QT2.
ChannelCount(code) == IF code \in YC600_MODEL_CODES THEN 2 ELSE 4

\* Every entry of a mapping has its three sequences as long as the channel
\* count of its model.
ChannelsMatch(inverters) ==
    \A k \in 1..Len(inverters) :
        LET n == ChannelCount(SubSeq(inverters[k].uid, 1, 3))
        IN  /\ n \in {2, 4}
            /\ inverters[k].channel_qty = n
            /\ Len(inverters[k].power) = n
            /\ Len(inverters[k].voltage) = n
            /\ Len(inverters[k].current) = n

\* The uids of the resolvable terminators of every chunk of the model.
KnownUidsOf == [chunk \in AllChunks |-> KnownUids(chunk)]

\* C21: a decoded frame whose terminators with a resolvable model code name
\* k different inverters has exactly k entries in inverters, those of these
\* uids (terminators that repeat a uid are the case of C22), and every entry
\* of a decoded and of an emitted reading has power, voltage and current
\* sequences as long as the channel count of its model, 2 or 4.
C21_EntriesPerTerminator ==
    /\ \A c \in Conns : Pending(c) =>
          /\ Len(ecu[c]["inverters"]) = Cardinality(KnownUidsOf[data[c]])
          /\ UidsOf(ecu[c]["inverters"]) = KnownUidsOf[data[c]]
          /\ ChannelsMatch(ecu[c]["inverters"])
    /\ \A i \in 1..Len(calls) : ChannelsMatch(calls[i].ecu["inverters"])

\* A reading with a two-channel and a four-channel inverter was emitted.
C21_Witness ==
    \E i \in 1..Len(calls) :
        /\ Len(calls[i].ecu["inverters"]) = 2
        /\ calls[i].ecu["inverters"][1].channel_qty = 2
        /\ calls[i].ecu["inverters"][2].channel_qty = 4

\* The starts of the terminators of a chunk that carry the uid.
StartsOf(chunk, uid) == {s \in KnownStarts(chunk) : Slice(Text(chunk), s + 3, s + 15) = uid}

\* What the sub-record at start s says: its place among the terminators, its
\* temperature and the readings of its first channel.
Occurrence(chunk, s) ==
    [uid |-> Slice(Text(chunk), s + 3, s + 15),
     index |-> Cardinality({m \in MatchStarts(Text(chunk)) : m < s}),
     temperature |-> PyInt(Slice(Text(chunk), s + 25, s + 28)).val - 100,
     power1 |-> PyInt(Slice(Text(chunk), s + 63, s + 66)).val,
     voltage1 |-> Div(PyInt(Slice(Text(chunk), s + 51, s + 54)).val, 10)]

\* For every chunk, the last occurrence of each uid.
LaterOccurrences ==
    [chunk \in AllChunks |->
        {Occurrence(chunk, s) : s \in {t \in KnownStarts(chunk) :
            \A u \in StartsOf(chunk, Slice(Text(chunk), t + 3, t + 15)) : u <= t}}]

Summary(inverter) ==
    [uid |-> inverter.uid, index |-> inverter.index,
     temperature |-> inverter.temperature, power1 |-> inverter.power[1],
     voltage1 |-> inverter.voltage[1]]

\* C22: the inverters mapping of a decoded frame has one entry for each uid,
\* and the entry of a uid carried by several terminators is the reading of
\* the last of them.
C22_LaterOccurrenceWins ==
    \A c \in Conns : Pending(c) =>
        /\ \A j, k \in 1..Len(ecu[c]["inverters"]) :
              ecu[c]["inverters"][j].uid = ecu[c]["inverters"][k].uid => j = k
        /\ \A k \in 1..Len(ecu[c]["inverters"]) :
              Summary(ecu[c]["inverters"][k]) \in LaterOccurrences[data[c]]

\* A reading was emitted whose first entry comes from the third terminator
\* of its frame.
C22_Witness ==
    \E i \in 1..Len(calls) :
        /\ Len(calls[i].ecu["inverters"]) = 2
        /\ calls[i].ecu["inverters"][1].index = 2
        /\ calls[i].ecu["inverters"][1].uid = Uid406

\* What the scenario expects of the decoded dict: current_power 123.45,
\* model ECU-R, one inverter with two channels and sequences of length 2.
ScenarioResult(dict) ==
    /\ DOMAIN dict # {}
    /\ dict["current_power"] = Div(12345, 100)
    /\ dict["model"] = "ECU-R"
    /\ "inverters" \in DOMAIN dict
    /\ Len(dict["inverters"]) = 1
    /\ dict["inverters"][1].channel_qty = 2
    /\ Len(dict["inverters"][1].power) = 2
    /\ Len(dict["inverters"][1].voltage) = 2
    /\ Len(dict["inverters"][1].current) = 2

\* The frames of the scenario: magic, a correct checksum, the ecu-id
\* APSystems001 at offset 18, the power digits 000012345 and one sub-record
\* of model code 406, without and with the token END1 after it.
ScenarioFrames == {FrameScenario, FrameScenarioEND1}

\* C23: the frame of the scenario, with the ecu-id APSystems001, decodes to
\* what the scenario expects.
C23_ScenarioAsStated ==
    \A c \in Conns : data[c] \in ScenarioFrames => ScenarioResult(ecu[c])

\* C23 as amended: the frame with the ecu-id 216000000001, whose first four
\* characters are the model code 2160, the power digits 000000012345 and the
\* sub-record END 406000000007 decodes to what the scenario expects.
C23_ScenarioWithModelInEcuId ==
    \A c \in Conns : data[c] = FrameFresh =>
        /\ ScenarioResult(ecu[c])
        /\ ecu[c]["ecu-id"] = EcuR
        /\ Slice(ecu[c]["ecu-id"], 0, 4) = <<"2", "1", "6", "0">>
        /\ ecu[c]["inverters"][1].uid = Uid406

\* The reading of the amended scenario was emitted.
C23_Witness ==
    \E i \in 1..Len(calls) :
        /\ data[calls[i].conn] = FrameFresh
        /\ calls[i].ecu["ecu-id"] = EcuR
        /\ ScenarioResult(calls[i].ecu)

\* C24: the reading a handler emits is the one the bytes of its chunk give a
\* handler that has decoded nothing before (Parsed, the decoding on an empty
\* dict), whatever this handler and the others have decoded earlier: two
\* decodings of the same bytes give equal readings.
C24_DecodeIdempotent ==
    [][\A c \in Conns : Emits(c) =>
          Last(calls').ecu = Parsed[data[c]].ecu]_vars

\* The same for the frames that wait to be emitted.
DecodedAsFresh ==
    \A c \in Conns : Pending(c) => ecu[c] = Parsed[data[c]].ecu

\* A handler has emitted two different readings: the second frame was
\* decoded into the dict that held the fields of the first.
C24_Witness ==
    \E c \in Conns :
        /\ Len(calls) = 2
        /\ calls[1].conn = c
        /\ calls[2].conn = c
        /\ calls[1].ecu # calls[2].ecu

\* --- C25: the set-up completes after the first reading

\* C25: once a first reading has been delivered to the callback of the
\* coordinator, _async_complete_setup eventually runs to its end: the devices
\* are registered and the sensor platform is set up.  The event loop runs
\* every step of the program that is ready; the event the set-up waits for
\* is fired by no step of the program.
C25_SetupCompletes == HasData ~> (setup = "done")

\* No step of a handler, of the callback or of the set-up fires the event.
FiredFromOutsideOnly == [][fired' # fired => UNCHANGED <<pc, calls, setup, registry, dispatched>>]_vars

\* The set-up leaves its wait only when the event was fired, however many
\* readings were delivered.
SetupOnlyAfterFire == setup # "waiting" => fired

\* --- C26: a sensor reports readings of its own ECU only

\* The dict the listeners of an update read: coordinator.data after the call.
Updated == Held(Len(calls))'

\* C26: at every update of the coordinator, a sensor that reports a value
\* reports it from a reading whose ecu-id is the ECU the sensor was created
\* for.
C26_SensorOfOwnEcu ==
    [][\A c \in Conns : Emits(c) =>
          \A s \in entities :
              NativeValue(Updated, s).some => Last(calls').ecu["ecu-id"] = s.ecu_id]_vars

\* --- C27: a register signal is sent once for a device

\* C27: no register signal is dispatched twice for the same ECU id or the
\* same inverter uid.
C27_RegisterOnce ==
    \A i, j \in 1..Len(dispatched) : i # j => dispatched[i] # dispatched[j]

\* --- C28: the value of an inverter sensor can always be read

\* C28: at every update of the coordinator, native_value of every inverter
\* sensor and of every inverter channel sensor returns (a value or None) and
\* raises nothing.
C28_InverterSensorReadable ==
    [][\A c \in Conns : Emits(c) =>
          \A s \in entities : s.kind # "ecu" => NativeValue(Updated, s).ok]_vars
====
